---- MODULE Spec2Model ----
(***************************************************************************)
(* Model of the skip list of src/skip.cpp.                                 *)
(*                                                                         *)
(* Memory is a sequence of allocation blocks; a block is NUM_LISTS         *)
(* contiguous list_ele_t records ("slots").  A pointer is <<block, slot>>, *)
(* so that the pointer arithmetic of the code (pt -= 1, prev_pts[i] - i,   *)
(* prev_pts[0] + i, old_head[i]) is arithmetic on the slot index.          *)
(***************************************************************************)
EXTENDS Integers, Sequences, FiniteSets

VARIABLES mem,     \* the heap: sequence of blocks linked into the list
          heads,   \* skip_list::heads[0..NUM_LISTS-1]
          fault,   \* the process has crashed / aborted
          res,     \* the last call and what it returned
          linked,  \* history: slots that were ever reachable in their lane
          hist,    \* history: key and path of the sl_insert calls that returned true
          removed, \* history: keys of the sl_delete calls that returned true
          twin,    \* a second skip_list, built with the key-difference comparator
          q        \* the queue_t of src/q.cpp, its elements and its last call

vars == <<mem, heads, fault, res, linked, hist, removed, twin, q>>

(* ------------------------------- bounds -------------------------------- *)
MaxInserts == 4          \* successful inserts per run
MaxKey     == 3          \* keys ("hashes") are 1..MaxKey
MaxQNodes  == 3          \* elements packed for the queue
MaxHash    == 1          \* their hashes are 0..MaxHash
MaxPayload == 2          \* their payload sizes are 1..MaxPayload
MaxDrift   == 1          \* q->nodes stays below the packed elements + MaxDrift

(* --------------------------- program constants ------------------------- *)
NUM_LISTS == 4

Lanes == 0 .. (NUM_LISTS - 1)
Keys  == 1 .. MaxKey

(* ------------------------------ pointers ------------------------------- *)
Null   == <<0, 0>>       \* NULL
Wild   == <<-1, 0>>      \* a non-null value that points into no block
Uninit == <<-2, 0>>      \* field never written: indeterminate when read
NoKey  == 0              \* hash field never written

Off(p, d) == <<p[1], p[2] + d>>

InRange(m, p) == p[1] \in 1 .. Len(m) /\ p[2] \in Lanes

\* p may be dereferenced and holds a written record
Readable(m, p) ==
  /\ InRange(m, p)
  /\ m[p[1]][p[2]].key # NoKey
  /\ m[p[1]][p[2]].next # Uninit

KeyOf(m, p)  == m[p[1]][p[2]].key
NextOf(m, p) == m[p[1]][p[2]].next

SetNext(m, p, v) == [m EXCEPT ![p[1]][p[2]].next = v]
SetSlot(m, p, k, v) == [m EXCEPT ![p[1]][p[2]] = [key |-> k, next |-> v]]

\* the comparator contract: c = "sign" returns -1/0/1, c = "diff" returns
\* the key difference (both satisfy "0 for equality, > 0, < 0")
sl_compare(c, h1, h2) ==
  IF c = "diff" THEN h1 - h2
  ELSE IF h1 < h2 THEN -1 ELSE IF h1 = h2 THEN 0 ELSE 1

\* malloc(NUM_LISTS * sizeof(list_ele_t)) followed by
\* memcpy(node, data, NUM_LISTS * sizeof(list_ele_t)): slot 0 is the copy of
\* data (pack() sets next = NULL); slots 1.. hold whatever followed data.
NewNodeBlock(k) ==
  [s \in Lanes |-> IF s = 0 THEN [key |-> k, next |-> Null]
                            ELSE [key |-> NoKey, next |-> Uninit]]

\* the values an indeterminate next field can turn out to hold: the bytes
\* that followed the caller's element are zero or are not an address
Garbage == {Null, Wild}

(* --------------------- lanes as seen from the heads -------------------- *)
RECURSIVE Chain(_, _, _)
\* the slots reached by following next from p (at most fuel of them)
Chain(m, p, fuel) ==
  IF p = Null \/ fuel = 0 \/ ~InRange(m, p) THEN <<>>
  ELSE <<p>> \o Chain(m, NextOf(m, p), fuel - 1)

MaxSlots(m) == Len(m) * NUM_LISTS + 1

Lane(m, h, i) == Chain(m, h[i], MaxSlots(m))

Range(s) == {s[x] : x \in DOMAIN s}

LaneKeys(m, h, i) == [x \in DOMAIN Lane(m, h, i) |-> KeyOf(m, Lane(m, h, i)[x])]

\* a lane is a finite NULL-terminated chain of written slots without repeats
WellFormedLane(m, h, i) ==
  LET l == Lane(m, h, i) IN
    /\ Len(l) < MaxSlots(m)
    /\ \A x \in DOMAIN l : Readable(m, l[x])
    /\ \A x, y \in DOMAIN l : x # y => l[x] # l[y]
    /\ (l # <<>> => NextOf(m, l[Len(l)]) = Null)

\* slots reachable from heads[i] that are slot i of their block
LinkedNow(m, h) ==
  UNION {{p \in Range(Lane(m, h, i)) : p[2] = i} : i \in Lanes}

(* ------------------------------ sl_insert ------------------------------ *)
RECURSIVE Descend(_, _, _, _, _, _, _)
\* the for/while traversal of sl_insert, "from top left to bottom right".
\* i, pt, prev are the code's i, pt, prev_pts.  Ends with
\*   "hit"  : the else branch was taken in lane i,
\*   "end"  : the for loop ran out below lane 0,
\*   "fault": a pointer that addresses no written record was dereferenced.
Descend(c, m, k, i, pt, prev, fuel) ==
  IF fuel = 0 \/ ~Readable(m, pt)
  THEN [kind |-> "fault", i |-> i, prev |-> prev]
  ELSE LET nx == NextOf(m, pt) IN
    IF nx = Null
    THEN LET prev1 == [prev EXCEPT ![i] = pt]
             down  == Off(pt, -1)
         IN IF i = 0
            THEN [kind |-> "end", i |-> 0, prev |-> prev1]
            ELSE Descend(c, m, k, i - 1, down,
                         [prev1 EXCEPT ![i - 1] = down], fuel - 1)
    ELSE IF ~Readable(m, nx)
    THEN [kind |-> "fault", i |-> i, prev |-> prev]
    ELSE IF 1 = sl_compare(c, k, KeyOf(m, nx))
    THEN Descend(c, m, k, i, nx, [prev EXCEPT ![i] = pt], fuel - 1)
    ELSE [kind |-> "hit", i |-> i, prev |-> prev]

RECURSIVE ll_scan_reversed(_, _, _, _, _)
\* ll_scan with the comparison of the scan reversed
ll_scan_reversed(c, m, node, prev, fuel) ==
  LET nx == NextOf(m, prev) IN
    IF fuel = 0
    THEN [mem |-> m, ret |-> Null, fault |-> TRUE]
    ELSE IF nx = Null
    THEN [mem |-> SetNext(SetNext(m, prev, node), node, Null),
          ret |-> prev, fault |-> FALSE]
    ELSE IF ~Readable(m, nx)
    THEN [mem |-> m, ret |-> Null, fault |-> TRUE]
    ELSE IF 0 > sl_compare(c, KeyOf(m, nx), KeyOf(m, node))
    THEN [mem |-> SetNext(SetNext(m, node, nx), prev, node),
          ret |-> prev, fault |-> FALSE]
    ELSE ll_scan_reversed(c, m, node, nx, fuel - 1)

RECURSIVE ll_scan_before_ties(_, _, _, _, _)
\* ll_scan stopping at the first key that is not smaller (0 <= for 0 <)
ll_scan_before_ties(c, m, node, prev, fuel) ==
  LET nx == NextOf(m, prev) IN
    IF fuel = 0
    THEN [mem |-> m, ret |-> Null, fault |-> TRUE]
    ELSE IF nx = Null
    THEN [mem |-> SetNext(SetNext(m, prev, node), node, Null),
          ret |-> prev, fault |-> FALSE]
    ELSE IF ~Readable(m, nx)
    THEN [mem |-> m, ret |-> Null, fault |-> TRUE]
    ELSE IF 0 <= sl_compare(c, KeyOf(m, nx), KeyOf(m, node))
    THEN [mem |-> SetNext(SetNext(m, node, nx), prev, node),
          ret |-> prev, fault |-> FALSE]
    ELSE ll_scan_before_ties(c, m, node, nx, fuel - 1)

RECURSIVE ll_scan(_, _, _, _, _)
\* the while loop of ll_insert; prev is the code's prev (= pt at loop top)
ll_scan(c, m, node, prev, fuel) ==
  LET nx == NextOf(m, prev) IN
    IF fuel = 0
    THEN [mem |-> m, ret |-> Null, fault |-> TRUE]
    ELSE IF nx = Null
    THEN [mem |-> SetNext(SetNext(m, prev, node), node, Null),
          ret |-> prev, fault |-> FALSE]
    ELSE IF ~Readable(m, nx)
    THEN [mem |-> m, ret |-> Null, fault |-> TRUE]
    ELSE IF 0 < sl_compare(c, KeyOf(m, nx), KeyOf(m, node))
    THEN [mem |-> SetNext(SetNext(m, node, nx), prev, node),
          ret |-> prev, fault |-> FALSE]
    ELSE ll_scan(c, m, node, nx, fuel - 1)

\* linear insert of node into the chain that starts at start; returns the
\* node it was linked behind
ll_insert(c, m, node, start) ==
  IF ~Readable(m, start)
  THEN [mem |-> m, ret |-> Null, fault |-> TRUE]
  ELSE IF ~(0 <= sl_compare(c, KeyOf(m, node), KeyOf(m, start)))
  THEN [mem |-> m, ret |-> Null, fault |-> TRUE]          \* assert
  ELSE IF 0 = sl_compare(c, KeyOf(m, node), KeyOf(m, start))
  THEN [mem |-> SetNext(SetNext(m, node, NextOf(m, start)), start, node),
        ret |-> start, fault |-> FALSE]
  ELSE ll_scan(c, m, node, start, MaxSlots(m))

RECURSIVE promote_loop_swapped(_, _, _, _, _, _, _)
\* promote_loop with its two link assignments in the other order
promote_loop_swapped(m, nb, prev, i, lvl, g, used) ==
  IF ~(i <= lvl /\ i < NUM_LISTS)
  THEN [mem |-> m, fault |-> FALSE, used |-> used]
  ELSE LET p == prev[i] IN
    IF ~InRange(m, p)
    THEN [mem |-> m, fault |-> TRUE, used |-> used]
    ELSE LET m1 == SetNext(m, p, <<nb, i>>)
             m2 == SetSlot(m1, <<nb, i>>, KeyOf(m, <<nb, 0>>), NextOf(m1, p))
         IN promote_loop_swapped(m2, nb, prev, i + 1, lvl, g, used)

RECURSIVE promote_loop(_, _, _, _, _, _, _)
\* the while loop of sl_promote.  lvl is the number of sl_roll() calls that
\* return true before the first false; g gives the value found in a next
\* field that was never written; used collects the lanes where one was read.
promote_loop(m, nb, prev, i, lvl, g, used) ==
  IF ~(i <= lvl /\ i < NUM_LISTS)
  THEN [mem |-> m, fault |-> FALSE, used |-> used]
  ELSE LET p == prev[i] IN
    IF ~InRange(m, p)
    THEN [mem |-> m, fault |-> TRUE, used |-> used]
    ELSE LET raw == NextOf(m, p)
             nxt == IF raw # Uninit THEN raw
                    ELSE IF i \in DOMAIN g THEN g[i] ELSE Null
             m1  == SetSlot(m, <<nb, i>>, KeyOf(m, <<nb, 0>>), nxt)
             m2  == SetNext(m1, p, <<nb, i>>)
         IN promote_loop(m2, nb, prev, i + 1, lvl, g,
                         IF raw = Uninit THEN used \cup {i} ELSE used)

sl_promote(m, nb, prev_pts, list_num, lvl, g) ==
  LET prev == [j \in Lanes |-> IF j <= list_num THEN Off(prev_pts[0], j)
                                              ELSE prev_pts[j]]
  IN promote_loop(m, nb, prev, 1, lvl, g, {})

InsertResult(m, h, r, f, u) ==
  [mem |-> m, heads |-> h, ret |-> r, fault |-> f, used |-> u]

\* insert_empty that sets heads[0] only
insert_empty_lane0_only(m, h, k) ==
  LET nb == Len(m) + 1
      pt == [i \in Lanes |-> [key |-> k, next |-> Null]]
  IN InsertResult(Append(m, pt), [h EXCEPT ![0] = <<nb, 0>>], TRUE, FALSE, {})

\* insert into an empty list: one block, every lane head points into it.
\* (Here and in insert_front the block "node" of line 61 only carries the copy
\* of data; it is linked nowhere and is not kept in mem.)
insert_empty(m, h, k) ==
  LET nb == Len(m) + 1
      pt == [i \in Lanes |-> [key |-> k, next |-> Null]]
  IN InsertResult(Append(m, pt), [i \in Lanes |-> <<nb, i>>], TRUE, FALSE, {})

\* insert_front without the final heads[0]->next = old_head
insert_front_skips_old_head(m, h, k) ==
  LET nb == Len(m) + 1
      old_head == h[0]
      pt == [i \in Lanes |->
               [key |-> k, next |-> NextOf(m, Off(old_head, i))]]
  IN InsertResult(Append(m, pt), [i \in Lanes |-> <<nb, i>>], TRUE, FALSE, {})

\* insert_front that moves heads[0] only
insert_front_lane0_only(m, h, k) ==
  LET nb == Len(m) + 1
      old_head == h[0]
      pt == [i \in Lanes |->
               [key |-> k,
                next |-> IF i = 0 THEN old_head
                         ELSE NextOf(m, Off(old_head, i))]]
  IN InsertResult(Append(m, pt), [h EXCEPT ![0] = <<nb, 0>>], TRUE, FALSE, {})

\* insert at start: the new block becomes the head of every lane
insert_front(m, h, k) ==
  LET nb == Len(m) + 1
      old_head == h[0]
      pt == [i \in Lanes |->
               [key |-> k,
                next |-> IF i = 0 THEN old_head
                         ELSE IF InRange(m, Off(old_head, i))
                              THEN NextOf(m, Off(old_head, i)) ELSE Wild]]
  IN InsertResult(Append(m, pt), [i \in Lanes |-> <<nb, i>>], TRUE, FALSE, {})

\* the traversal, the lane-0 splice and the promotion
insert_traverse(c, m, h, k, lvl, g) ==
  LET nb   == Len(m) + 1
      m0   == Append(m, NewNodeBlock(k))
      node == <<nb, 0>>
      top  == NUM_LISTS - 1
      t    == Descend(c, m0, k, top, h[top],
                      [j \in Lanes |-> IF j = top THEN h[top] ELSE Null],
                      MaxSlots(m0) + NUM_LISTS)
  IN IF t.kind = "fault"
     THEN InsertResult(m, h, FALSE, TRUE, {})
     ELSE IF t.kind = "hit"
     THEN LET li == ll_insert(c, m0, node, Off(t.prev[t.i], -t.i)) IN
            IF li.fault
            THEN InsertResult(m, h, FALSE, TRUE, {})
            ELSE LET pr == sl_promote(li.mem, nb, [t.prev EXCEPT ![0] = li.ret],
                                      t.i, lvl, g)
                 IN InsertResult(pr.mem, h, TRUE, pr.fault, pr.used)
     ELSE LET m1 == SetNext(SetNext(m0, t.prev[0], node), node, Null)
              pr == sl_promote(m1, nb, t.prev, 0, lvl, g)
          IN InsertResult(pr.mem, h, TRUE, pr.fault, pr.used)

\* which of the three paths of sl_insert the key takes
InsertPath(c, m, h, k) ==
  IF h[0] = Null THEN "empty"
  ELSE IF 0 >= sl_compare(c, k, KeyOf(m, h[0])) THEN "front"
  ELSE "traverse"

\* sl_insert that clears the heads when the second malloc fails
sl_insert_late_check(c, m, h, k, alloc, lvl, g) ==
  IF alloc = "fail1" THEN InsertResult(m, h, FALSE, FALSE, {})
  ELSE IF InsertPath(c, m, h, k) = "empty"
  THEN IF alloc = "fail2" THEN InsertResult(m, h, FALSE, FALSE, {})
       ELSE insert_empty(m, h, k)
  ELSE IF InsertPath(c, m, h, k) = "front"
  THEN IF alloc = "fail2"
       THEN InsertResult(m, [i \in Lanes |-> Null], FALSE, FALSE, {})
       ELSE insert_front(m, h, k)
  ELSE insert_traverse(c, m, h, k, lvl, g)

\* alloc: "ok", "fail1" (first malloc returns NULL), "fail2" (second one)
sl_insert(c, m, h, k, alloc, lvl, g) ==
  IF alloc = "fail1" THEN InsertResult(m, h, FALSE, FALSE, {})
  ELSE IF InsertPath(c, m, h, k) = "empty"
  THEN IF alloc = "fail2" THEN InsertResult(m, h, FALSE, FALSE, {})
       ELSE insert_empty(m, h, k)
  ELSE IF InsertPath(c, m, h, k) = "front"
  THEN IF alloc = "fail2" THEN InsertResult(m, h, FALSE, FALSE, {})
       ELSE insert_front(m, h, k)
  ELSE insert_traverse(c, m, h, k, lvl, g)

(* ------------------------------ sl_delete ------------------------------ *)
\* node is Null or a caller's element; the list is not touched
sl_delete(m, h, node) == [mem |-> m, heads |-> h, ret |-> (node = Null)]

(* ------------------------------ sl_search ------------------------------ *)
RECURSIVE search_lane(_, _, _, _, _, _, _)
RECURSIVE search_walk(_, _, _, _, _, _, _)
\* body of the for loop; seen collects the slots whose next field was read
search_lane(c, m, k, i, pt, seen, fuel) ==
  IF ~Readable(m, pt)
  THEN [ret |-> Null, fault |-> TRUE, seen |-> seen]
  ELSE LET cmp == sl_compare(c, k, KeyOf(m, pt)) IN
    IF 0 = cmp THEN [ret |-> pt, fault |-> FALSE, seen |-> seen]
    ELSE IF 0 > cmp THEN [ret |-> Null, fault |-> FALSE, seen |-> seen]
    ELSE search_walk(c, m, k, i, pt, seen, fuel)

\* the while loop, then pt -= 1
search_walk(c, m, k, i, pt, seen, fuel) ==
  LET nx    == NextOf(m, pt)
      seen1 == seen \cup {pt}
      drop  == IF i = 0 THEN [ret |-> Null, fault |-> FALSE, seen |-> seen1]
               ELSE search_lane(c, m, k, i - 1, Off(pt, -1), seen1, fuel)
  IN IF fuel = 0 THEN [ret |-> Null, fault |-> TRUE, seen |-> seen1]
     ELSE IF nx = Null THEN drop
     ELSE IF ~Readable(m, nx)
     THEN [ret |-> Null, fault |-> TRUE, seen |-> seen1]
     ELSE LET cmp == sl_compare(c, k, KeyOf(m, nx)) IN
       IF 1 = cmp THEN search_walk(c, m, k, i, nx, seen1, fuel - 1)
       ELSE IF 0 = cmp THEN [ret |-> nx, fault |-> FALSE, seen |-> seen1]
       ELSE drop

\* the traversal of sl_search from heads[NUM_LISTS - 1]
search_from_top(c, m, h, k) ==
  IF h[NUM_LISTS - 1] = Null
  THEN [ret |-> Null, fault |-> FALSE, seen |-> {}]
  ELSE search_lane(c, m, k, NUM_LISTS - 1, h[NUM_LISTS - 1], {}, MaxSlots(m))

\* sl_search that keeps the node it found as the head of the top lane
sl_search_moves_head(c, m, h, k) ==
  LET r == search_from_top(c, m, h, k) IN
    [mem |-> m,
     heads |-> IF r.ret # Null THEN [h EXCEPT ![NUM_LISTS - 1] = r.ret] ELSE h,
     ret |-> r.ret, fault |-> r.fault, seen |-> r.seen]

\* the call: the list as sl_search leaves it, and what it returns
sl_search(c, m, h, k) ==
  LET r == search_from_top(c, m, h, k) IN
    [mem |-> m, heads |-> h, ret |-> r.ret, fault |-> r.fault, seen |-> r.seen]

(* ------------------------------- sl_print ------------------------------ *)
RECURSIVE print_chain(_, _, _)
\* while (pt->next != NULL) pt = pt->next, then the last hash is printed;
\* TRUE when every record read is a written one
print_chain(m, pt, fuel) ==
  IF fuel = 0 \/ ~Readable(m, pt) THEN FALSE
  ELSE IF NextOf(m, pt) = Null THEN TRUE
  ELSE print_chain(m, NextOf(m, pt), fuel - 1)

\* prints the chain from start, if non-NULL, then every lane from the top
sl_print(m, h, start) ==
  [mem |-> m, heads |-> h,
   fault |-> ~( /\ (start # Null => print_chain(m, start, MaxSlots(m)))
                /\ \A i \in Lanes :
                     h[i] # Null => print_chain(m, h[i], MaxSlots(m)) )]

(* ------------------------------ the queue ------------------------------ *)
\* Elements are numbered in the order pack() allocates them; 0 is NULL.
\* q.next, q.hash and q.psize are the fields of the packed elements; q.freed
\* are the elements that were freed; q.op is the last call, q.arg the hash or
\* the element a q_search or q_shuffle was given, q.found what q_search
\* returned.
QNull == 0

\* q_new(): the empty queue, with no element packed yet
q_new ==
  [head |-> QNull, tail |-> QNull, nodes |-> 0, size |-> 0,
   next |-> <<>>, hash |-> <<>>, psize |-> <<>>, freed |-> {},
   fault |-> FALSE, op |-> "new", arg |-> 0, found |-> QNull]

\* pack(val, size, hash): a new element with next = NULL
pack(Q, size, hash) ==
  [Q EXCEPT !.next = Append(@, QNull), !.hash = Append(@, hash),
            !.psize = Append(@, size)]

\* the element may be dereferenced
Live(Q, n) == n \in 1 .. Len(Q.next) /\ n \notin Q.freed

hash_compare(h1, h2) == h1 = h2

RECURSIVE QWalk(_, _, _)
QWalk(Q, n, fuel) ==
  IF n = QNull \/ fuel = 0 \/ ~Live(Q, n) THEN <<>>
  ELSE <<n>> \o QWalk(Q, Q.next[n], fuel - 1)

\* the elements reachable from q->head, in order (cut off behind a cycle)
QChain(Q) == QWalk(Q, Q.head, Len(Q.next) + 1)

InQueue(Q, n) == n \in Range(QChain(Q)) \/ n = Q.tail

QFault(Q) == [q |-> [Q EXCEPT !.fault = TRUE], ret |-> FALSE]

q_insert_head(Q, newHead) ==
  IF newHead = QNull THEN [q |-> Q, ret |-> FALSE]
  ELSE [q |-> [Q EXCEPT !.next[newHead] = Q.head,
                        !.head = newHead,
                        !.tail = IF Q.tail = QNull THEN newHead ELSE Q.tail,
                        !.nodes = @ + 1,
                        !.size = @ + Q.psize[newHead]],
        ret |-> TRUE]

q_insert_tail(Q, newTail) ==
  IF newTail = QNull THEN [q |-> Q, ret |-> FALSE]
  ELSE IF Q.tail # QNull /\ ~Live(Q, Q.tail) THEN QFault(Q)
  ELSE LET next1 == [Q.next EXCEPT ![newTail] = QNull]
           next2 == IF Q.tail # QNull THEN [next1 EXCEPT ![Q.tail] = newTail]
                    ELSE next1
       IN [q |-> [Q EXCEPT !.next = next2,
                           !.head = IF Q.head = QNull THEN newTail ELSE Q.head,
                           !.tail = newTail,
                           !.nodes = @ + 1,
                           !.size = @ + Q.psize[newTail]],
           ret |-> TRUE]

\* q_remove_head without its q->nodes--
q_remove_head_keeps_count(Q, free_after) ==
  IF Q.head = QNull \/ Q.tail = QNull THEN [q |-> Q, ret |-> FALSE]
  ELSE IF ~Live(Q, Q.head) THEN QFault(Q)
  ELSE LET oldHead == Q.head IN
    [q |-> [Q EXCEPT !.head = IF Q.tail = oldHead THEN QNull
                              ELSE Q.next[oldHead],
                     !.tail = IF Q.tail = oldHead THEN QNull ELSE Q.tail,
                     !.size = @ - Q.psize[oldHead],
                     !.freed = IF free_after THEN @ \cup {oldHead} ELSE @],
     ret |-> TRUE]

q_remove_head(Q, free_after) ==
  IF Q.head = QNull \/ Q.tail = QNull THEN [q |-> Q, ret |-> FALSE]
  ELSE IF ~Live(Q, Q.head) THEN QFault(Q)
  ELSE LET oldHead == Q.head IN
    [q |-> [Q EXCEPT !.head = IF Q.tail = oldHead THEN QNull
                              ELSE Q.next[oldHead],
                     !.tail = IF Q.tail = oldHead THEN QNull ELSE Q.tail,
                     !.nodes = @ - 1,
                     !.size = @ - Q.psize[oldHead],
                     !.freed = IF free_after THEN @ \cup {oldHead} ELSE @],
     ret |-> TRUE]

q_nodes(Q) == IF Q.head = QNull \/ Q.tail = QNull THEN 0 ELSE Q.nodes

q_size(Q) == IF Q.head = QNull \/ Q.tail = QNull THEN 0 ELSE Q.size

RECURSIVE reverse_loop(_, _, _, _, _)
\* the while loop of q_reverse; nx is the next field of every element
reverse_loop(Q, nx, next, prev, fuel) ==
  IF next = QNull THEN [next |-> nx, ok |-> TRUE]
  ELSE IF fuel = 0 \/ ~Live(Q, next) THEN [next |-> nx, ok |-> FALSE]
  ELSE reverse_loop(Q, [nx EXCEPT ![next] = prev], nx[next], next, fuel - 1)

q_reverse(Q) ==
  IF Q.head = QNull \/ Q.tail = QNull THEN [q |-> Q, ret |-> TRUE]
  ELSE IF ~Live(Q, Q.head) THEN QFault(Q)
  ELSE LET r == reverse_loop(Q, Q.next, Q.next[Q.head], Q.head,
                             Len(Q.next) + 1)
       IN IF ~r.ok THEN QFault(Q)
          ELSE [q |-> [Q EXCEPT !.tail = Q.head,
                                !.head = Q.tail,
                                !.next = [r.next EXCEPT ![Q.head] = QNull]],
                ret |-> TRUE]

RECURSIVE search_loop(_, _, _, _)
\* the do-while loop of q_search and the test behind it
search_loop(Q, hash, pt, fuel) ==
  IF fuel = 0 \/ ~Live(Q, pt) THEN [found |-> QNull, ok |-> FALSE]
  ELSE IF hash_compare(hash, Q.hash[pt]) THEN [found |-> pt, ok |-> TRUE]
  ELSE LET nx == Q.next[pt] IN
    IF nx = QNull THEN [found |-> QNull, ok |-> TRUE]
    ELSE IF ~Live(Q, nx) THEN [found |-> QNull, ok |-> FALSE]
    ELSE IF Q.next[nx] # QNull THEN search_loop(Q, hash, nx, fuel - 1)
    ELSE [found |-> IF hash_compare(hash, Q.hash[nx]) THEN nx ELSE QNull,
          ok |-> TRUE]

\* hash is a void *: the value 0 is NULL
q_search(Q, hash) ==
  IF hash = 0 THEN [found |-> QNull, ok |-> TRUE]
  ELSE IF Q.head = QNull \/ Q.tail = QNull THEN [found |-> QNull, ok |-> TRUE]
  ELSE search_loop(Q, hash, Q.head, Len(Q.next) + 1)

RECURSIVE shuffle_loop(_, _, _, _, _)
\* the while loop of q_shuffle
shuffle_loop(Q, nx, pt, node, fuel) ==
  IF pt = QNull THEN [next |-> nx, ok |-> TRUE]
  ELSE IF fuel = 0 \/ ~Live(Q, pt) \/ (nx[pt] = node /\ ~Live(Q, node))
  THEN [next |-> nx, ok |-> FALSE]
  ELSE LET nx1 == IF nx[pt] = node THEN [nx EXCEPT ![pt] = nx[node]] ELSE nx
       IN shuffle_loop(Q, nx1, nx1[pt], node, fuel - 1)

q_shuffle(Q, node) ==
  LET Q1 == IF node = Q.head THEN q_remove_head(Q, FALSE).q ELSE Q
      r  == shuffle_loop(Q1, Q1.next, Q1.head, node, Len(Q.next) + 1)
  IN IF Q1.fault \/ ~r.ok THEN QFault(Q1)
     ELSE q_insert_tail([Q1 EXCEPT !.next = r.next], node)

(* ------------------------------- actions ------------------------------- *)
\* again: the call is an sl_search of the key that the call before it searched
Result(op, k, ok, node, alloc, bad) ==
  [op |-> op, key |-> k, ok |-> ok, node |-> node, alloc |-> alloc, bad |-> bad,
   again |-> (op = "search" /\ res.op = "search" /\ res.key = k)]

Init ==
  /\ mem = <<>>
  /\ heads = [i \in Lanes |-> Null]
  /\ fault = FALSE
  /\ res = Result("none", 0, TRUE, Null, "ok", FALSE)
  /\ linked = {}
  /\ hist = <<>>
  /\ removed = <<>>
  /\ twin = [mem |-> <<>>, heads |-> [i \in Lanes |-> Null],
             fault |-> FALSE, node |-> Null]
  /\ q = q_new

\* sl.sl_insert(pack(val, size, k)) with a comparator returning -1/0/1
Insert(k, alloc, lvl) ==
  /\ ~fault
  /\ Len(mem) < MaxInserts
  /\ alloc = "fail2" => InsertPath("sign", mem, heads, k) # "traverse"
  /\ lvl > 0 => (alloc = "ok" /\ InsertPath("sign", mem, heads, k) = "traverse")
  /\ LET used == sl_insert("sign", mem, heads, k, alloc, lvl, <<>>).used IN
     \E g \in [used -> Garbage] :
       LET r == sl_insert("sign", mem, heads, k, alloc, lvl, g) IN
         /\ mem' = r.mem
         /\ heads' = r.heads
         /\ fault' = r.fault
         /\ res' = Result("insert", k, r.ret, Null, alloc, FALSE)
         /\ linked' = linked \cup LinkedNow(r.mem, r.heads)
         /\ hist' = IF r.ret /\ ~r.fault
                    THEN Append(hist, [key |-> k,
                                       path |-> InsertPath("sign", mem, heads, k)])
                    ELSE hist
         /\ UNCHANGED <<removed, twin, q>>

\* sl.sl_insert(NULL): memcpy(node, data, ...) reads through data
InsertNull(alloc) ==
  /\ ~fault
  /\ alloc \in {"ok", "fail1"}
  /\ fault' = (alloc = "ok")
  /\ res' = Result("insert_null", 0, FALSE, Null, alloc, FALSE)
  /\ UNCHANGED <<mem, heads, linked, hist, removed, twin, q>>

\* sl.sl_delete(node) for a caller's element with key k (a non-null pointer
\* that addresses no block of the list)
Delete(k) ==
  /\ ~fault
  /\ LET r == sl_delete(mem, heads, Wild) IN
       /\ mem' = r.mem
       /\ heads' = r.heads
       /\ res' = Result("delete", k, r.ret, Null, "ok", FALSE)
       /\ removed' = IF r.ret THEN Append(removed, k) ELSE removed
  /\ UNCHANGED <<fault, linked, hist, twin, q>>

\* sl.sl_delete(NULL)
DeleteNull ==
  /\ ~fault
  /\ LET r == sl_delete(mem, heads, Null) IN
       /\ mem' = r.mem
       /\ heads' = r.heads
       /\ res' = Result("delete_null", 0, r.ret, Null, "ok", FALSE)
  /\ UNCHANGED <<fault, linked, hist, removed, twin, q>>

\* sl.sl_search((void *) k)
Search(k) ==
  /\ ~fault
  /\ LET r == sl_search("sign", mem, heads, k) IN
       /\ mem' = r.mem
       /\ heads' = r.heads
       /\ fault' = r.fault
       /\ res' = Result("search", k, ~r.fault, r.ret, "ok",
                        ~(r.seen \subseteq linked))
  /\ UNCHANGED <<linked, hist, removed, twin, q>>

\* sl.sl_print(start), start being NULL or what the last sl_search returned
PrintList(start) ==
  /\ ~fault
  /\ start \in {Null} \cup (IF res.op = "search" THEN {res.node} ELSE {})
  /\ LET r == sl_print(mem, heads, start) IN
       /\ mem' = r.mem
       /\ heads' = r.heads
       /\ fault' = r.fault
       /\ res' = Result("print", 0, ~r.fault, start, "ok", FALSE)
  /\ UNCHANGED <<linked, hist, removed, twin, q>>

Next ==
  \/ \E k \in Keys, alloc \in {"ok", "fail1", "fail2"}, lvl \in Lanes :
       Insert(k, alloc, lvl)
  \/ \E alloc \in {"ok", "fail1"} : InsertNull(alloc)
  \/ \E k \in Keys : Delete(k)
  \/ DeleteNull
  \/ \E k \in Keys : Search(k)
  \/ \E start \in {Null} \cup ((1 .. MaxInserts) \X Lanes) : PrintList(start)

Spec == Init /\ [][Next]_vars


(* ---------------- the same calls under two comparators ----------------- *)
\* the same sl_insert, with the same coin flips, on a list whose sl_compare
\* returns -1/0/1 and on a list whose sl_compare returns the difference
InsertBoth(k, lvl) ==
  /\ ~fault /\ ~twin.fault
  /\ Len(mem) < MaxInserts /\ Len(twin.mem) < MaxInserts
  /\ lvl > 0 => InsertPath("sign", mem, heads, k) = "traverse"
  /\ LET usedS == sl_insert("sign", mem, heads, k, "ok", lvl, <<>>).used
         usedD == sl_insert("diff", twin.mem, twin.heads, k, "ok", lvl, <<>>).used
     IN \E g \in [usedS \cup usedD -> Garbage] :
       LET r == sl_insert("sign", mem, heads, k, "ok", lvl, g)
           d == sl_insert("diff", twin.mem, twin.heads, k, "ok", lvl, g)
       IN /\ mem' = r.mem
          /\ heads' = r.heads
          /\ fault' = r.fault
          /\ res' = Result("insert", k, r.ret, Null, "ok", FALSE)
          /\ linked' = linked \cup LinkedNow(r.mem, r.heads)
          /\ hist' = IF r.ret /\ ~r.fault
                     THEN Append(hist, [key |-> k,
                                        path |-> InsertPath("sign", mem, heads, k)])
                     ELSE hist
          /\ twin' = [mem |-> d.mem, heads |-> d.heads,
                      fault |-> d.fault, node |-> Null]
          /\ UNCHANGED <<removed, q>>

\* the same sl_search on both lists
SearchBoth(k) ==
  /\ ~fault /\ ~twin.fault
  /\ LET r == sl_search("sign", mem, heads, k)
         d == sl_search("diff", twin.mem, twin.heads, k)
     IN /\ fault' = r.fault
        /\ res' = Result("search", k, ~r.fault, r.ret, "ok",
                         ~(r.seen \subseteq linked))
        /\ mem' = r.mem
        /\ heads' = r.heads
        /\ twin' = [mem |-> d.mem, heads |-> d.heads,
                    fault |-> d.fault, node |-> d.ret]
  /\ UNCHANGED <<linked, hist, removed, q>>

NextCmp ==
  \/ \E k \in Keys, lvl \in Lanes : InsertBoth(k, lvl)
  \/ \E k \in Keys : SearchBoth(k)

SpecCmp == Init /\ [][NextCmp]_vars

(* ---------------------------- queue actions ---------------------------- *)
Called(Q, op, arg, found) ==
  [Q EXCEPT !.op = op, !.arg = arg, !.found = found]

skipVars == <<mem, heads, fault, res, linked, hist, removed, twin>>

\* the counters of Q are capped: nodes, an int, stays within MaxDrift of the
\* number of packed elements, and size, a size_t, is not taken below 0
CountersInRange(Q) ==
  /\ Q.nodes \in 0 .. Len(Q.next) + MaxDrift
  /\ Q.size \in 0 .. MaxPayload * (Len(Q.next) + MaxDrift)

Fresh(n) == Live(q, n) /\ ~InQueue(q, n)

QPack(size, hash) ==
  /\ ~q.fault
  /\ Len(q.next) < MaxQNodes
  /\ q' = Called(pack(q, size, hash), "pack", 0, QNull)
  /\ UNCHANGED skipVars

QInsertHead(n) ==
  /\ ~q.fault
  /\ n = QNull \/ Fresh(n)
  /\ LET r == q_insert_head(q, n) IN
       /\ CountersInRange(r.q)
       /\ q' = Called(r.q, "insert_head", 0, QNull)
  /\ UNCHANGED skipVars

QInsertTail(n) ==
  /\ ~q.fault
  /\ n = QNull \/ Fresh(n)
  /\ LET r == q_insert_tail(q, n) IN
       /\ CountersInRange(r.q)
       /\ q' = Called(r.q, "insert_tail", 0, QNull)
  /\ UNCHANGED skipVars

QRemoveHead(free_after) ==
  /\ ~q.fault
  /\ LET r == q_remove_head(q, free_after) IN
       /\ CountersInRange(r.q)
       /\ q' = Called(r.q, "remove_head", 0, QNull)
  /\ UNCHANGED skipVars

QReverse ==
  /\ ~q.fault
  /\ q' = Called(q_reverse(q).q, "reverse", 0, QNull)
  /\ UNCHANGED skipVars

QSearch(hash) ==
  /\ ~q.fault
  /\ LET r == q_search(q, hash) IN
       q' = Called([q EXCEPT !.fault = ~r.ok], "search", hash, r.found)
  /\ UNCHANGED skipVars

\* q_shuffle(q, node) for an element that is reachable from q->head
QShuffle(node) ==
  /\ ~q.fault
  /\ node \in Range(QChain(q))
  /\ LET r == q_shuffle(q, node) IN
       /\ CountersInRange(r.q)
       /\ q' = Called(r.q, "shuffle", node, QNull)
  /\ UNCHANGED skipVars

\* the calls of the queue without q_shuffle
NextQ0 ==
  \/ \E size \in 1 .. MaxPayload, hash \in 0 .. MaxHash : QPack(size, hash)
  \/ \E n \in 0 .. MaxQNodes : QInsertHead(n)
  \/ \E n \in 0 .. MaxQNodes : QInsertTail(n)
  \/ \E free_after \in BOOLEAN : QRemoveHead(free_after)
  \/ QReverse
  \/ \E hash \in 0 .. MaxHash : QSearch(hash)

SpecQ0 == Init /\ [][NextQ0]_vars

NextQ ==
  \/ NextQ0
  \/ \E node \in 1 .. MaxQNodes : QShuffle(node)

SpecQ == Init /\ [][NextQ]_vars

(* ------------------------------ properties ----------------------------- *)
Count(seq, k) == Cardinality({x \in DOMAIN seq : seq[x] = k})

HistKeys == [x \in DOMAIN hist |-> hist[x].key]

Lane0 == Lane(mem, heads, 0)
Lane0Keys == LaneKeys(mem, heads, 0)

\* C1: the keys read by following next from heads[0] are non-decreasing
\* under sl_compare
C1_Sorted ==
  /\ WellFormedLane(mem, heads, 0)
  /\ \A x \in 1 .. (Len(Lane0Keys) - 1) :
       sl_compare("sign", Lane0Keys[x], Lane0Keys[x + 1]) <= 0

\* C2: the multiset of keys in lane 0 is the multiset of keys of the inserts
\* that returned true minus those of the deletes that returned true
C2_Complete ==
  \A k \in Keys : Count(Lane0Keys, k) = Count(HistKeys, k) - Count(removed, k)

\* C3: sl_search(k) of an inserted key returns a node with key k and never
\* reads the next field of a slot that was never linked into its lane
C3_SearchFindsInserted ==
  (res.op = "search" /\ Count(HistKeys, res.key) > 0) =>
    /\ ~fault
    /\ res.node # Null
    /\ KeyOf(mem, res.node) = res.key
    /\ ~res.bad

\* C4: sl_search(k) returns NULL when k was never inserted, and a non-null
\* result has a key that compares equal to k
C4_SearchSound ==
  (res.op = "search") =>
    /\ (Count(HistKeys, res.key) = 0 => (~fault /\ res.node = Null))
    /\ ((~fault /\ res.node # Null) =>
          sl_compare("sign", KeyOf(mem, res.node), res.key) = 0)

\* C5: every element reachable from heads[i], i > 0, has the slot i-1 of the
\* same block reachable from heads[i-1]
C5_LaneInclusion ==
  \A i \in Lanes \ {0} :
    \A p \in Range(Lane(mem, heads, i)) :
      Off(p, -1) \in Range(Lane(mem, heads, i - 1))

\* C6 as claimed: two elements with equal keys appear in lane 0 in the order
\* they were inserted (blocks are allocated in call order)
C6_Stable ==
  \A x, y \in DOMAIN Lane0 :
    (x < y /\ Lane0Keys[x] = Lane0Keys[y]) => Lane0[x][1] < Lane0[y][1]

\* C6 amended: two elements with equal keys appear in lane 0 in the order
\* they were inserted, unless the one that comes first was inserted at the
\* front (its key compared <= the key of the head of lane 0)
C6_StableBehindHead ==
  \A x, y \in DOMAIN Lane0 :
    (x < y /\ Lane0Keys[x] = Lane0Keys[y]) =>
      \/ Lane0[x][1] < Lane0[y][1]
      \/ /\ Lane0[x][1] \in DOMAIN hist
         /\ hist[Lane0[x][1]].path = "front"

\* C7: sl_delete of an element whose key is present leaves one occurrence
\* fewer of that key in lane 0
C7_DeleteRemoves ==
  [][(res'.op = "delete" /\ Count(Lane0Keys, res'.key) > 0) =>
       Count(Lane0Keys', res'.key) = Count(Lane0Keys, res'.key) - 1]_vars

\* C8: sl_insert returns false only when an allocation failed, and then no
\* head and no next link has changed
C8_FailureAtomic ==
  [][(res'.op = "insert" /\ ~fault' /\ ~res'.ok) =>
       (res'.alloc # "ok" /\ mem' = mem /\ heads' = heads)]_vars

\* C9: a null node passed to sl_insert or sl_delete makes the call return
\* false without dereferencing it and without changing any lane
C9_NullHandled ==
  [][(res'.op \in {"insert_null", "delete_null"}) =>
       (~fault' /\ ~res'.ok /\ mem' = mem /\ heads' = heads)]_vars

\* C10: with two comparators that agree in sign, the same inserts with the
\* same coin flips give the same lane contents and every sl_search gives the
\* same found / not-found answer
C10_SignOnly ==
  /\ fault = twin.fault
  /\ \A i \in Lanes :
       LaneKeys(mem, heads, i) = LaneKeys(twin.mem, twin.heads, i)
  /\ (res.op = "search" => ((res.node = Null) <=> (twin.node = Null)))

\* C11: sl_search and sl_print change no head and no next link, and an
\* sl_search repeated with nothing in between returns the same node
C11_ReadOnly ==
  [][(res'.op \in {"search", "print"}) =>
       /\ mem' = mem
       /\ heads' = heads
       /\ ((res'.again /\ ~fault') => res'.node = res.node)]_vars

\* C16: a successful sl_insert into an empty list makes every head point to
\* a node that holds the inserted key and has next == NULL
C16_EmptyInsert ==
  [][(res'.op = "insert" /\ res'.ok /\ ~fault' /\ heads[0] = Null) =>
       \A i \in Lanes :
         /\ InRange(mem', heads'[i])
         /\ KeyOf(mem', heads'[i]) = res'.key
         /\ NextOf(mem', heads'[i]) = Null]_vars

\* C17: a successful sl_insert of a key <= the key of heads[0] makes, in
\* every lane i, the new node heads[i] with the old heads[i] as its next
C17_FrontInsert ==
  [][(/\ res'.op = "insert" /\ res'.ok /\ ~fault'
      /\ heads[0] # Null
      /\ sl_compare("sign", res'.key, KeyOf(mem, heads[0])) <= 0) =>
       \A i \in Lanes :
         /\ heads'[i] # heads[i]
         /\ InRange(mem', heads'[i])
         /\ KeyOf(mem', heads'[i]) = res'.key
         /\ NextOf(mem', heads'[i]) = heads[i]]_vars

\* C18: every lane i >= 1 is a finite NULL-terminated chain without repeats
\* whose keys are non-decreasing under sl_compare
C18_UpperLanes ==
  \A i \in Lanes \ {0} :
    /\ WellFormedLane(mem, heads, i)
    /\ \A x \in 1 .. (Len(LaneKeys(mem, heads, i)) - 1) :
         sl_compare("sign", LaneKeys(mem, heads, i)[x],
                            LaneKeys(mem, heads, i)[x + 1]) <= 0

\* C19: the heads are all NULL, or they are the slots 0..NUM_LISTS-1 of one
\* block and their key is a minimum of the keys in lane 0
C19_Heads ==
  \/ \A i \in Lanes : heads[i] = Null
  \/ /\ InRange(mem, heads[0])
     /\ heads[0][2] = 0
     /\ \A i \in Lanes : heads[i] = Off(heads[0], i)
     /\ \A i \in Lanes : KeyOf(mem, heads[i]) = KeyOf(mem, heads[0])
     /\ \A x \in DOMAIN Lane0Keys :
          sl_compare("sign", KeyOf(mem, heads[0]), Lane0Keys[x]) <= 0

\* C20: every slot i >= 1 that sl_promote wrote for an inserted node was
\* spliced behind a node of lane i, so it is reachable from heads[i]
C20_SplicePoint ==
  \A b \in DOMAIN hist :
    hist[b].path = "traverse" =>
      \A i \in Lanes \ {0} :
        mem[b][i].key # NoKey => <<b, i>> \in Range(Lane(mem, heads, i))

(* ------------------------------ witnesses ------------------------------ *)
PathsTaken == {hist[x].path : x \in DOMAIN hist}

W_C1 ==
  /\ Len(Lane0) >= 3
  /\ {"front", "traverse"} \subseteq PathsTaken
  /\ Cardinality(Range(Lane0Keys)) >= 2
  /\ C1_Sorted

W_C2 ==
  /\ Len(hist) >= 3
  /\ \E k \in Keys : Count(Lane0Keys, k) >= 2
  /\ res.op = "delete"
  /\ Count(Lane0Keys, res.key) > 0

W_C6 ==
  /\ \E x, y \in DOMAIN Lane0 :
       /\ x < y
       /\ Lane0Keys[x] = Lane0Keys[y]
       /\ hist[Lane0[y][1]].path = "traverse"
       /\ hist[Lane0[x][1]].path = "traverse"
  /\ \E x, y \in DOMAIN Lane0 :
       /\ x < y
       /\ Lane0Keys[x] = Lane0Keys[y]
       /\ Lane0[x][1] > Lane0[y][1]

W_C8 ==
  /\ res.op = "insert"
  /\ ~fault
  /\ ~res.ok
  /\ res.alloc = "fail2"
  /\ Len(Lane0) >= 2

W_C11 ==
  /\ res.op = "search"
  /\ res.again
  /\ ~fault
  /\ res.node # Null
  /\ Len(Lane0) >= 3

W_C16 ==
  /\ res.op = "insert"
  /\ res.ok
  /\ Len(hist) = 1
  /\ hist[1].path = "empty"
  /\ \A i \in Lanes : heads[i] = <<1, i>>

W_C18 ==
  /\ \E i \in Lanes \ {0} : Len(Lane(mem, heads, i)) >= 3
  /\ Len(Lane(mem, heads, 2)) >= 2
  /\ "front" \in PathsTaken

W_C19 ==
  /\ {"front", "traverse"} \subseteq PathsTaken
  /\ Len(Lane0) >= 3
  /\ heads[0][1] > 1

(* --------------------------- queue properties -------------------------- *)
RECURSIVE PayloadSum(_, _)
PayloadSum(Q, seq) ==
  IF seq = <<>> THEN 0 ELSE Q.psize[Head(seq)] + PayloadSum(Q, Tail(seq))

RECURSIVE Without(_, _)
\* seq without the element n
Without(seq, n) ==
  IF seq = <<>> THEN <<>>
  ELSE IF Head(seq) = n THEN Without(Tail(seq), n)
  ELSE <<Head(seq)>> \o Without(Tail(seq), n)

Reversed(seq) == [x \in 1 .. Len(seq) |-> seq[Len(seq) + 1 - x]]

\* the queue is a NULL-terminated list from head to tail with true counters
QWellFormed(Q) ==
  LET c == QChain(Q) IN
  /\ ~Q.fault
  /\ Cardinality(Range(c)) = Len(c)
  /\ Q.head = QNull <=> Q.tail = QNull
  /\ Q.head # QNull => /\ c # <<>>
                       /\ Q.tail = c[Len(c)]
                       /\ Q.next[Q.tail] = QNull
  /\ Q.nodes = Len(c)
  /\ Q.size = PayloadSum(Q, c)

\* C12: after any sequence of q_insert_head and q_insert_tail of fresh
\* elements, q_remove_head and q_reverse on a queue made by q_new, no call has
\* faulted, q_nodes is the number of elements reachable from head and q_size
\* is the sum of their payload sizes; both are 0 when the queue is empty.
C12_Counters ==
  /\ ~q.fault
  /\ q_nodes(q) = Len(QChain(q))
  /\ q_size(q) = PayloadSum(q, QChain(q))
  /\ q.head = QNull => q_nodes(q) = 0 /\ q_size(q) = 0

\* C13: q_shuffle of an element of a well-formed queue moves it to the tail:
\* the element is the last one reachable from head, tail is the element and
\* its next is NULL, the other elements keep their order, and q_nodes and
\* q_size are unchanged.
C13_ShuffleToTail ==
  [][(q'.op = "shuffle" /\ QWellFormed(q) /\ q'.arg \in Range(QChain(q))) =>
       LET node == q'.arg IN
       /\ ~q'.fault
       /\ QChain(q') = Without(QChain(q), node) \o <<node>>
       /\ q'.tail = node
       /\ q'.next[node] = QNull
       /\ q_nodes(q') = q_nodes(q)
       /\ q_size(q') = q_size(q)]_vars

\* C14: q_reverse of a non-empty queue reverses the elements reachable from
\* head, none added and none dropped: the old tail is the head, the old head
\* is the tail with next NULL, q_nodes and q_size are unchanged and a second
\* q_reverse restores the order; on an empty queue it changes nothing.
C14_Reverse ==
  [][(q'.op = "reverse" /\ ~q.fault) =>
       IF q.head = QNull \/ q.tail = QNull
       THEN /\ q'.head = q.head /\ q'.tail = q.tail /\ q'.next = q.next
            /\ q'.nodes = q.nodes /\ q'.size = q.size
       ELSE /\ ~q'.fault
            /\ QChain(q') = Reversed(QChain(q))
            /\ q'.head = q.tail
            /\ q'.tail = q.head
            /\ q'.next[q'.tail] = QNull
            /\ q_nodes(q') = q_nodes(q)
            /\ q_size(q') = q_size(q)
            /\ QChain(q_reverse(q').q) = QChain(q)]_vars

\* the elements reachable from head whose hash hash_compare matches with h
Matches(Q, h) ==
  SelectSeq(QChain(Q), LAMBDA n : hash_compare(h, Q.hash[n]))

\* C15: for every hash h, 0 included, q_search returns an element iff some
\* element reachable from head has a hash that matches h, and the element
\* returned is the first of them from the head.
C15_SearchFirstMatch ==
  q.op = "search" =>
    /\ ~q.fault
    /\ q.found # QNull <=> Matches(q, q.arg) # <<>>
    /\ q.found # QNull => q.found = Head(Matches(q, q.arg))

\* a q_reverse has run on two elements of different payload sizes after an
\* element was removed and freed
W_C12 ==
  /\ q.op = "reverse"
  /\ Len(QChain(q)) = 2
  /\ q.freed # {}
  /\ q_nodes(q) = 2
  /\ q_size(q) = 3

====
